---- MODULE Spec2Model ----
(***************************************************************************)
(* A model of engraver's plotter (src/src/plotter.rs): the orchestrator    *)
(* Plotter::run, the memory sizer calculate_mem_to_use, and the            *)
(* scheduler / writer pipeline the orchestrator launches.                  *)
(*                                                                         *)
(* Byte counts are kept as in the source (NONCE_SIZE = 262144).  TLC's     *)
(* integers are 32 bit, so every byte count the model draws stays below    *)
(* 2^31; the u64 operations of the source that can leave the u64 range on  *)
(* such inputs (the subtractions) are modelled with their wrap-around or   *)
(* panic outcome explicitly.                                               *)
(***************************************************************************)
EXTENDS Integers, Sequences, FiniteSets, TLC

VARIABLES
    probe,  \* input and result of a pure function under SpecSizer / SpecAlign
    req,    \* the PlotterTask the user passes to every run
    dev,    \* the target device: its sector size
    task,   \* the run's own task (run mutates task.nonces)
    orch,   \* Plotter::run: its position and locals
    disk,   \* plot files and their resume sidecars, by file name
    chans,  \* the two channels: empty and full buffers
    bufs,   \* the contents of the buffers
    sched,  \* the scheduler (hasher) thread
    wr      \* the writer thread

vars == <<probe, req, dev, task, orch, disk, chans, bufs, sched, wr>>
runvars == <<req, dev, task, orch, disk, chans, bufs, sched, wr>>

----------------------------------------------------------------------------
(* Program constants, plotter.rs lines 30-32.                              *)
SCOOP_SIZE == 64
NUM_SCOOPS == 4096
NONCE_SIZE == SCOOP_SIZE * NUM_SCOOPS

Min(a, b) == IF a < b THEN a ELSE b
Max(a, b) == IF a > b THEN a ELSE b

(* The two ways rustc compiles u64 arithmetic: with overflow checks (a     *)
(* panic on overflow) and without (wrap-around modulo 2^64).               *)
Builds == {"debug", "release"}

----------------------------------------------------------------------------
(* Bounds of the sizer's inputs.                                           *)
MaxLog2 == 7

(* Nonce counts around the powers of two, where the rounding units         *)
(* (1, 2, 8, 16, 32, 64, 128 nonces) have their boundaries.                *)
RECURSIVE Pow2(_)
Pow2(i) == IF i = 0 THEN 1 ELSE 2 * Pow2(i - 1)
EdgeCounts == {0} \cup UNION {{Pow2(i), Pow2(i) + 1} : i \in 0..MaxLog2}

(* x * 1000 / 1024 of line 417 on u64.  For x < 2^64 / 1000 the product    *)
(* does not leave u64 and the quotient is floor(1000 x / 1024); with       *)
(* x = 1024 q + r that is 1000 q + floor(1000 r / 1024), which is computed *)
(* here so that the intermediate product stays inside TLC's integers.      *)
ElbowRoom(x) == (x \div 1024) * 1000 + ((x % 1024) * 1000) \div 1024

NumBuffer(async_io) == IF async_io THEN 2 ELSE 1

(* lines 409-414 *)
LaneNonces(gpu, nonces_per_sector) ==
    IF gpu THEN Max(16, nonces_per_sector) ELSE nonces_per_sector

(* line 417: min(mem, (free - gpu_mem_needed) * 1000 / 1024).  When        *)
(* free < gpu_mem_needed the u64 subtraction leaves the range: a release   *)
(* build wraps to 2^64 - d (d = gpu_mem_needed - free), the product wraps  *)
(* to 2^64 - 1000 d and the quotient is 2^54 - ceil(1000 d / 1024), which  *)
(* is above every mem below 2^31, so the min returns mem.  (The debug      *)
(* build panics; that outcome is decided in calculate_mem_to_use.)         *)
(* Faulty variant: line 417 left out. *)
CapToFree_None(mem, free, gpu_mem_needed) == mem
CapToFree(mem, free, gpu_mem_needed) ==
    IF free < gpu_mem_needed
    THEN mem
    ELSE Min(mem, ElbowRoom(free - gpu_mem_needed))

(* lines 419-425: round down to the unit, then lift to one unit.           *)
(* Faulty variant: lines 421-422 round up. *)
RoundDownUnit_Up(mem, unit) == ((mem + unit - 1) \div unit) * unit
RoundDownUnit(mem, unit) == (mem \div unit) * unit
(* Faulty variant: line 425 left out. *)
RoundToUnit_NoLift(mem, unit) == RoundDownUnit(mem, unit)
RoundToUnit(mem, unit) == Max(RoundDownUnit(mem, unit), unit)

(* What task.mem.parse::<Bytes>() of line 380 yields: Ok(size) or Err.     *)
ParsedBytes(size) == [ok |-> TRUE, size |-> size]
ParseError == [ok |-> FALSE, size |-> 0]

(* calculate_mem_to_use, lines 371-427.  t.mem is what task.mem parses to. *)
(* The result is one of                                                    *)
(*   [kind |-> "Ok", mem]        the function returns Ok(mem)              *)
(*   [kind |-> "Err"]            it returns Err("invalid unit")            *)
(*   [kind |-> "exit", code]     it ends the process, process::exit(code)  *)
(*   [kind |-> "panic"]          a checked u64 subtraction went below zero *)
calculate_mem_to_use(t, free, nonces_per_sector, gpu, gpu_mem_needed, build) ==
    LET plotsize == t.nonces * NONCE_SIZE
        m0 == t.mem.size
        m1 == IF gpu /\ m0 > 0 THEN m0 - gpu_mem_needed ELSE m0
        m2 == IF m1 = 0 THEN plotsize ELSE m1
        m3 == Min(m2, plotsize + gpu_mem_needed)
        lane == LaneNonces(gpu, nonces_per_sector)
        m4 == CapToFree(m3, free, gpu_mem_needed)
        unit == NumBuffer(t.async_io) * NONCE_SIZE * lane
        m5 == RoundToUnit(m4, unit)
    IN  IF ~t.mem.ok
        THEN [kind |-> "Err", mem |-> 0, code |-> 0, underflow |-> FALSE]
        ELSE IF gpu /\ m0 > 0 /\ m0 < gpu_mem_needed + nonces_per_sector * NONCE_SIZE
        THEN [kind |-> "exit", mem |-> 0, code |-> 0, underflow |-> FALSE]
        ELSE IF free < gpu_mem_needed /\ build = "debug"
        THEN [kind |-> "panic", mem |-> 0, code |-> 101, underflow |-> TRUE]
        ELSE [kind |-> "Ok", mem |-> m5, code |-> 0,
              underflow |-> free < gpu_mem_needed]

(* lines 253-255 *)
BufferSize(mem, async_io) == mem \div NumBuffer(async_io)

----------------------------------------------------------------------------
(* Bounds of the runs.                                                     *)
MaxNonces == 4      \* the largest nonce count a task asks for
ScoopBound == 2     \* the scoops 0 .. ScoopBound-1 of each nonce are tracked
MaxRuns == 2        \* the runs of one task: the first and its restarts

NumericIds == {11}
StartNonces == {7}
FileNames == {<<i, s, n>> : i \in NumericIds, s \in StartNonces, n \in 0..MaxNonces}

(* What the platform calls answer during one run. *)
FreeDisks == {0, 2 * NONCE_SIZE + 512, MaxNonces * NONCE_SIZE}
FreeMems == {NONCE_SIZE \div 2, 3 * NONCE_SIZE, 64 * NONCE_SIZE}
GpuMems(gpu) == IF gpu THEN {0, NONCE_SIZE} ELSE {0}
SectorSizes == {128, 256}
MemBudgets == {ParseError, ParsedBytes(0), ParsedBytes(NONCE_SIZE),
               ParsedBytes(4 * NONCE_SIZE)}

(* lines 125-129: a nonce count of 0 asks for the whole free disk.         *)
FillDisk(nonces, free_disk_space) ==
    IF nonces = 0 THEN free_disk_space \div NONCE_SIZE ELSE nonces

(* lines 136-147: align the nonce count with the sector size under direct  *)
(* i/o.                                                                    *)
(* Faulty variant: the count is rounded up. *)
AlignDown_Up(nonces, nonces_per_sector) ==
    ((nonces + nonces_per_sector - 1) \div nonces_per_sector) * nonces_per_sector
AlignDown(nonces, nonces_per_sector) ==
    (nonces \div nonces_per_sector) * nonces_per_sector
AlignNonces(nonces, direct_io, sector_size) ==
    LET nps == sector_size \div SCOOP_SIZE
    IN  IF direct_io
        THEN [nonces |-> IF nonces % nps > 0 THEN AlignDown(nonces, nps) ELSE nonces,
              rounded |-> nonces % nps > 0,
              nonces_per_sector |-> nps]
        ELSE [nonces |-> nonces, rounded |-> FALSE, nonces_per_sector |-> 1]

(* line 149 *)
(* Faulty variant: the size of one scoop per nonce. *)
PlotSize_Scoops(nonces) == nonces * SCOOP_SIZE
PlotSize(nonces) == nonces * NONCE_SIZE

(* lines 151-154: "{numeric_id}_{start_nonce}_{nonces}" in the output path *)
FileName(t) == <<t.numeric_id, t.start_nonce, t.nonces>>

(* run, lines 125-154: the effective task, the plot size and the file.     *)
RunPreamble(t, free_disk_space, sector_size) ==
    LET al == AlignNonces(FillDisk(t.nonces, free_disk_space), t.direct_io,
                          sector_size)
        t2 == [t EXCEPT !.nonces = al.nonces]
    IN  [task |-> t2, rounded |-> al.rounded,
         nonces_per_sector |-> al.nonces_per_sector,
         plotsize |-> PlotSize(t2.nonces), file |-> FileName(t2)]

(* A plot file and its sidecar.  data[o \div SCOOP_SIZE + 1] is the scoop  *)
(* stored at byte offset o, for the offsets of the tracked scoops; a scoop *)
(* is <<numeric_id, nonce, scoop index>> of the hasher's output, or <<>>   *)
(* where nothing has been written since the preallocation.                 *)
NoFile == [exists |-> FALSE, len |-> 0, data |-> <<>>,
           resume |-> [present |-> FALSE, count |-> 0]]
Unwritten == <<>>

(* utils::preallocate(file, plotsize, direct_io), line 237 *)
Preallocated(f, plotsize) ==
    [f EXCEPT !.exists = TRUE, !.len = plotsize,
              !.data = [o \in 1..(ScoopBound * (plotsize \div NONCE_SIZE)) |-> Unwritten]]

(* writer::write_resume_info(file, count), line 238 *)
WithResumeInfo(f, count) == [f EXCEPT !.resume = [present |-> TRUE, count |-> count]]

(* line 214 *)
(* Faulty variant: a new plot starts after its first nonce. *)
InitialProgress_One == 0 + 1
InitialProgress == 0

(* The way a run has ended.  A return leaves the status to run's caller;  *)
(* code is the status of an exit, a panic or a kill.                       *)
NotEnded == [how |-> "running", code |-> 0]
Returned == [how |-> "return", code |-> 0]
Exited(code) == [how |-> "exit", code |-> code]
Panicked == [how |-> "panic", code |-> 101]
Killed == [how |-> "killed", code |-> 137]

IdleOrch(runs) ==
    [pc |-> "start", err |-> "none", exit |-> NotEnded, runs |-> runs,
     file |-> <<0, 0, 0>>, plotsize |-> 0, nonces_per_sector |-> 1,
     rounded |-> FALSE, free_disk_space |-> 0,
     gpu_mem_needed |-> 0, mem |-> 0, underflow |-> FALSE,
     progress |-> 0, resumed |-> FALSE, buffer_size |-> 0,
     hasher_spawned |-> FALSE, writer_spawned |-> FALSE]

BlankBuffer == [first |-> 0, count |-> 0, idx |-> 0, hashed |-> FALSE]
IdleChans == [empty |-> <<>>, full |-> <<>>, full_closed |-> FALSE]
IdleBufs == [b \in 1..2 |-> BlankBuffer]
IdleSched == [pc |-> "idle", pos |-> 0, held |-> 0, idx |-> 0]
IdleWriter == [pc |-> "idle", written |-> 0, held |-> 0, scoop |-> 0, received |-> 0]

IdlePipeline ==
    /\ chans' = IdleChans /\ bufs' = IdleBufs
    /\ sched' = IdleSched /\ wr' = IdleWriter

(* A return or exit of run before any thread is spawned. *)
(* Faulty variant: the error is reported and run goes on. *)
EndRun_NoReturn(o, err, exit) ==
    [o EXCEPT !.err = err, !.pc = IF o.pc = "start" THEN "validated" ELSE "prepared"]
EndRun(o, err, exit) == [o EXCEPT !.pc = "ended", !.err = err, !.exit = exit]

(* lines 156-163 *)
PathMissing(path_exists) == ~path_exists
(* lines 165-174 *)
(* Faulty variant: the check is left out. *)
DiskFull_Never(free_disk_space, plotsize, file_exists, benchmark) == FALSE
DiskFull(free_disk_space, plotsize, file_exists, benchmark) ==
    free_disk_space < plotsize /\ ~file_exists /\ ~benchmark

(* run, lines 81-181: the task is completed and checked.  The answers of   *)
(* the platform are drawn here.                                            *)
Validate ==
    /\ orch.pc = "start"
    /\ \E path_exists \in BOOLEAN, free_disk_space \in FreeDisks,
          free \in FreeMems, gpu_mem_needed \in GpuMems(task.gpu), build \in Builds :
        LET pre == RunPreamble(task, free_disk_space, dev.sector_size)
            t == pre.task
            plotsize == pre.plotsize
            file == pre.file
            r == calculate_mem_to_use(t, free, pre.nonces_per_sector, t.gpu,
                                      gpu_mem_needed, build)
            o == [orch EXCEPT !.file = file, !.plotsize = plotsize,
                              !.nonces_per_sector = pre.nonces_per_sector,
                              !.rounded = pre.rounded,
                              !.free_disk_space = free_disk_space,
                              !.gpu_mem_needed = gpu_mem_needed]
        IN  /\ task' = t
            /\ orch' =
                 IF PathMissing(path_exists)
                 THEN EndRun(o, "PathMissing", Returned)
                 ELSE IF DiskFull(free_disk_space, plotsize, disk[file].exists,
                                  t.benchmark)
                 THEN EndRun(o, "DiskFull", Returned)
                 ELSE IF r.kind = "Err"
                 THEN EndRun(o, "ConfigInvalid", Returned)
                 ELSE IF r.kind = "exit"
                 THEN EndRun(o, "HostMemInsufficient", Exited(r.code))
                 ELSE IF r.kind = "panic"
                 THEN EndRun([o EXCEPT !.underflow = TRUE], "Panic", Panicked)
                 ELSE [o EXCEPT !.pc = "validated", !.mem = r.mem,
                                !.underflow = r.underflow]
    /\ UNCHANGED <<probe, req, dev, disk, chans, bufs, sched, wr>>

(* line 221: the progress a readable resume info gives *)
(* Faulty variant: the stored count is dropped. *)
ResumedProgress_Zero(count) == 0
ResumedProgress(count) == count

(* lines 236-239: what run puts in the place of the missing file f.        *)
(* Faulty variant: the benchmark flag is not looked at. *)
NewPlotFile_Always(f, plotsize, benchmark) ==
    WithResumeInfo(Preallocated(f, plotsize), 0)
NewPlotFile(f, plotsize, benchmark) ==
    IF benchmark THEN f ELSE WithResumeInfo(Preallocated(f, plotsize), 0)

(* run, lines 214-243: the resume info of an existing file is read, a new  *)
(* file is preallocated and given resume info 0.  free_disk_space is not   *)
(* read after line 170; the model drops its value here.                    *)
PrepareFile ==
    /\ orch.pc = "validated"
    /\ LET f == disk[orch.file]
           o == [orch EXCEPT !.free_disk_space = 0]
       IN  IF f.exists
           THEN /\ orch' = IF f.resume.present
                           THEN [o EXCEPT !.pc = "prepared", !.resumed = TRUE,
                                     !.progress = ResumedProgress(f.resume.count)]
                           ELSE EndRun(o, "AlreadyCompleted", Returned)
                /\ disk' = disk
           ELSE /\ orch' = [o EXCEPT !.pc = "prepared",
                                     !.progress = InitialProgress]
                /\ disk' = [disk EXCEPT ![orch.file] =
                               NewPlotFile(f, orch.plotsize, task.benchmark)]
    /\ UNCHANGED <<probe, req, dev, task, chans, bufs, sched, wr>>

(* lines 259-262: num_buffer new buffers are sent to the empty channel.    *)
(* Faulty variants: one buffer is sent num_buffer times; none is sent. *)
NewBuffers_None(num_buffer) == <<>>
NewBuffers_Shared(num_buffer) == [i \in 1..num_buffer |-> 1]
NewBuffers(num_buffer) == [i \in 1..num_buffer |-> i]

(* lines 328 and 339: the progress handed to the scheduler and the writer  *)
(* Faulty variants: a thread is started at 0 instead. *)
SchedulerStart_Zero(progress) == 0
SchedulerStart(progress) == progress
WriterStart_Zero(progress) == 0
WriterStart(progress) == progress

(* run, lines 253-344: the buffers and channels are created, the scheduler *)
(* thread and the writer thread are spawned.                               *)
SpawnThreads ==
    /\ orch.pc = "prepared"
    /\ LET num_buffer == NumBuffer(task.async_io)
           buffer_size == BufferSize(orch.mem, task.async_io)
       IN  /\ orch' = [orch EXCEPT !.pc = "running", !.buffer_size = buffer_size,
                                   !.hasher_spawned = TRUE, !.writer_spawned = TRUE]
           /\ chans' = [empty |-> NewBuffers(num_buffer), full |-> <<>>,
                        full_closed |-> FALSE]
           /\ bufs' = IdleBufs
           /\ sched' = [IdleSched EXCEPT !.pc = "recv",
                                         !.pos = SchedulerStart(orch.progress)]
           /\ wr' = [IdleWriter EXCEPT !.pc = "recv",
                                       !.written = WriterStart(orch.progress)]
    /\ UNCHANGED <<probe, req, dev, task, disk>>

----------------------------------------------------------------------------
(* The pipeline.  scheduler.rs and writer.rs are not among the sources;    *)
(* the two threads follow sections 4.1 - 4.4 and 4.6 of the specification. *)

(* chan::bounded channels of lines 256-257: first in, first out.           *)
ChanSend(q, b) == Append(q, b)
(* Faulty variant: last in, first out. *)
ChanRecv_Lifo(q) == [item |-> q[Len(q)], rest |-> SubSeq(q, 1, Len(q) - 1)]
ChanRecv(q) == [item |-> Head(q), rest |-> Tail(q)]

(* Scoop s of the hasher's output for (id, nonce) (section 4.1).           *)
HashScoop(id, nonce, s) == <<id, nonce, s>>

(* Nonces one buffer holds (section 3). *)
NoncesPerBuf == orch.buffer_size \div NONCE_SIZE

(* Byte offset of scoop s of the nonce at range offset p (section 4.2).    *)
ScoopOffset(s, nonces, p) == s * nonces * SCOOP_SIZE + p * SCOOP_SIZE

(* The scoops of a nonce the writer's loop goes through. *)
TrackedScoops == IF NUM_SCOOPS < ScoopBound THEN NUM_SCOOPS ELSE ScoopBound

(* Scheduler: take an empty buffer for the next chunk (blocks while none). *)
SchedRecv ==
    /\ orch.pc = "running" /\ sched.pc = "recv"
    /\ sched.pos < task.nonces
    /\ chans.empty # <<>>
    /\ sched' = [sched EXCEPT !.pc = "hash", !.held = ChanRecv(chans.empty).item]
    /\ chans' = [chans EXCEPT !.empty = ChanRecv(chans.empty).rest]
    /\ UNCHANGED <<probe, req, dev, task, orch, disk, bufs, wr>>

(* Scheduler: hash the chunk into the buffer, tag it with chunk index and  *)
(* offset, push it to the full channel.                                    *)
SchedDispatch ==
    /\ orch.pc = "running" /\ sched.pc = "hash"
    /\ LET k == Min(NoncesPerBuf, task.nonces - sched.pos)
       IN  /\ bufs' = [bufs EXCEPT ![sched.held] =
                          [first |-> sched.pos, count |-> k, idx |-> sched.idx,
                           hashed |-> TRUE]]
           /\ chans' = [chans EXCEPT !.full = ChanSend(chans.full, sched.held)]
           /\ sched' = [sched EXCEPT !.pc = "recv", !.held = 0,
                                     !.pos = sched.pos + k, !.idx = sched.idx + 1]
    /\ UNCHANGED <<probe, req, dev, task, orch, disk, wr>>

(* Scheduler: after the last chunk the full channel is closed.             *)
SchedClose ==
    /\ orch.pc = "running" /\ sched.pc = "recv"
    /\ sched.pos >= task.nonces
    /\ chans' = [chans EXCEPT !.full_closed = TRUE]
    /\ sched' = [sched EXCEPT !.pc = "done"]
    /\ UNCHANGED <<probe, req, dev, task, orch, disk, bufs, wr>>

(* Writer: take the next full buffer (blocks while none). *)
WriterRecv ==
    /\ orch.pc = "running" /\ wr.pc = "recv"
    /\ chans.full # <<>>
    /\ wr' = [wr EXCEPT !.pc = "write", !.held = ChanRecv(chans.full).item,
                        !.scoop = 0, !.received = wr.received + 1]
    /\ chans' = [chans EXCEPT !.full = ChanRecv(chans.full).rest]
    /\ UNCHANGED <<probe, req, dev, task, orch, disk, bufs, sched>>

(* The nonces the writer takes from the buffer it holds. *)
NoncesToWrite == Min(NoncesPerBuf, task.nonces - wr.written)

(* The file after scoop s of the k nonces of buffer b is written at the    *)
(* writer's offset; a write past the end of the file lengthens it.         *)
WriteScoop(f, b, s, k) ==
    [f EXCEPT
      !.len = IF k > 0
              THEN Max(f.len, ScoopOffset(s, task.nonces, wr.written + k))
              ELSE f.len,
      !.data =
        [o \in DOMAIN f.data |->
            IF \E i \in 0..(k - 1) :
                  o = ScoopOffset(s, task.nonces, wr.written + i) \div SCOOP_SIZE + 1
            THEN LET i == CHOOSE i \in 0..(k - 1) :
                      o = ScoopOffset(s, task.nonces, wr.written + i) \div SCOOP_SIZE + 1
                 IN  IF b.hashed /\ i < b.count
                     THEN HashScoop(task.numeric_id, task.start_nonce + b.first + i, s)
                     ELSE Unwritten
            ELSE f.data[o]]]

(* Writer: one scoop of the buffer is gathered and written. *)
WriterWriteScoop ==
    /\ orch.pc = "running" /\ wr.pc = "write"
    /\ ~task.benchmark
    /\ wr.scoop < TrackedScoops
    /\ disk' = [disk EXCEPT ![orch.file] =
                   WriteScoop(disk[orch.file], bufs[wr.held], wr.scoop, NoncesToWrite)]
    /\ wr' = [wr EXCEPT !.scoop = wr.scoop + 1]
    /\ UNCHANGED <<probe, req, dev, task, orch, chans, bufs, sched>>

(* Writer: the buffer's writes are done; the resume counter advances and   *)
(* the sidecar is rewritten.                                               *)
WriterCommit ==
    /\ orch.pc = "running" /\ wr.pc = "write"
    /\ ~task.benchmark
    /\ wr.scoop = TrackedScoops
    /\ disk' = [disk EXCEPT ![orch.file] =
                   WithResumeInfo(disk[orch.file], wr.written + NoncesToWrite)]
    /\ wr' = [wr EXCEPT !.pc = "recycle", !.written = wr.written + NoncesToWrite]
    /\ UNCHANGED <<probe, req, dev, task, orch, chans, bufs, sched>>

(* Writer in benchmark mode: writes and resume update are skipped.         *)
WriterSkip ==
    /\ orch.pc = "running" /\ wr.pc = "write"
    /\ task.benchmark
    /\ wr' = [wr EXCEPT !.pc = "recycle", !.written = wr.written + NoncesToWrite]
    /\ UNCHANGED <<probe, req, dev, task, orch, disk, chans, bufs, sched>>

(* Writer: the buffer goes back to the empty channel. *)
WriterRecycle ==
    /\ orch.pc = "running" /\ wr.pc = "recycle"
    /\ chans' = [chans EXCEPT !.empty = ChanSend(chans.empty, wr.held)]
    /\ wr' = [wr EXCEPT !.pc = "recv", !.held = 0]
    /\ UNCHANGED <<probe, req, dev, task, orch, disk, bufs, sched>>

(* Writer: the full channel is closed and drained; the writer ends.  The   *)
(* sidecar is present iff plotting is in progress (section 3): it goes     *)
(* when the whole range has been written.                                  *)
WriterExit ==
    /\ orch.pc = "running" /\ wr.pc = "recv"
    /\ chans.full = <<>> /\ chans.full_closed
    /\ wr' = [wr EXCEPT !.pc = "done"]
    /\ disk' = IF ~task.benchmark /\ wr.written = task.nonces
                  /\ disk[orch.file].exists
               THEN [disk EXCEPT ![orch.file].resume = NoFile.resume]
               ELSE disk
    /\ UNCHANGED <<probe, req, dev, task, orch, chans, bufs, sched>>

(* A positioned write fails: fatal, the run is aborted with what has been  *)
(* committed (section 4.2, Errors; section 7).                             *)
WriteFails ==
    /\ orch.pc = "running" /\ wr.pc = "write"
    /\ ~task.benchmark
    /\ wr.scoop < TrackedScoops
    /\ orch' = [orch EXCEPT !.pc = "ended", !.err = "IoFailed", !.exit = Exited(1)]
    /\ IdlePipeline
    /\ UNCHANGED <<probe, req, dev, task, disk>>

(* run, lines 349-350: both threads are joined, run returns.               *)
Join ==
    /\ orch.pc = "running"
    /\ wr.pc = "done" /\ sched.pc = "done"
    /\ orch' = [orch EXCEPT !.pc = "done", !.exit = Returned]
    /\ UNCHANGED <<probe, req, dev, task, disk, chans, bufs, sched, wr>>

(* The process is killed while the pipeline runs: memory is lost, the disk *)
(* stays as it is.                                                         *)
Interrupt ==
    /\ orch.pc = "running"
    /\ orch' = [orch EXCEPT !.pc = "ended", !.err = "Interrupted", !.exit = Killed]
    /\ IdlePipeline
    /\ UNCHANGED <<probe, req, dev, task, disk>>

(* The user runs the same task again. *)
Restart ==
    /\ orch.pc \in {"ended", "done"}
    /\ orch.runs < MaxRuns
    /\ orch' = IdleOrch(orch.runs + 1)
    /\ task' = req
    /\ IdlePipeline
    /\ UNCHANGED <<probe, dev, req, disk>>

NoProbe == [fn |-> "none"]

Init ==
    /\ probe = NoProbe
    /\ \E id \in NumericIds, st \in StartNonces, n \in 0..MaxNonces,
          m \in MemBudgets, g \in BOOLEAN, d \in BOOLEAN, a \in BOOLEAN,
          b \in BOOLEAN :
        req = [numeric_id |-> id, start_nonce |-> st, nonces |-> n, mem |-> m,
               gpu |-> g, direct_io |-> d, async_io |-> a, benchmark |-> b]
    /\ dev \in [sector_size : IF req.direct_io THEN SectorSizes ELSE {512}]
    /\ task = req
    /\ orch = IdleOrch(1)
    /\ disk = [name \in FileNames |-> NoFile]
    /\ chans = IdleChans /\ bufs = IdleBufs
    /\ sched = IdleSched /\ wr = IdleWriter

Next ==
    \/ Validate \/ PrepareFile \/ SpawnThreads
    \/ SchedRecv \/ SchedDispatch \/ SchedClose
    \/ WriterRecv \/ WriterWriteScoop \/ WriterCommit \/ WriterSkip
    \/ WriterRecycle \/ WriterExit \/ WriteFails
    \/ Join \/ Interrupt \/ Restart

Spec == Init /\ [][Next]_vars

----------------------------------------------------------------------------
(* SpecLive: one run, without kill or i/o error, of a task whose plot an   *)
(* earlier run may have left; every thread keeps being scheduled.          *)

(* The plot of n nonces as runs leave it: the first c nonces written and   *)
(* the sidecar at c, or all written and the sidecar gone.                  *)
PartialPlot(id, start, n, c) ==
    [exists |-> TRUE, len |-> PlotSize(n),
     data |-> [o \in 1..(TrackedScoops * n) |->
                 IF (o - 1) % n < c
                 THEN HashScoop(id, start + ((o - 1) % n), (o - 1) \div n)
                 ELSE Unwritten],
     resume |-> [present |-> TRUE, count |-> c]]
CompletePlot(id, start, n) ==
    [PartialPlot(id, start, n, n) EXCEPT !.resume = NoFile.resume]
EarlierPlots(t) ==
    {NoFile} \cup
    (IF t.nonces > 0
     THEN {PartialPlot(t.numeric_id, t.start_nonce, t.nonces, c) : c \in 0..t.nonces}
            \cup {CompletePlot(t.numeric_id, t.start_nonce, t.nonces)}
     ELSE {})

InitLive ==
    /\ probe = NoProbe
    /\ \E id \in NumericIds, st \in StartNonces, n \in 0..MaxNonces,
          m \in MemBudgets, g \in BOOLEAN, d \in BOOLEAN, a \in BOOLEAN,
          b \in BOOLEAN :
        req = [numeric_id |-> id, start_nonce |-> st, nonces |-> n, mem |-> m,
               gpu |-> g, direct_io |-> d, async_io |-> a, benchmark |-> b]
    /\ dev \in [sector_size : IF req.direct_io THEN SectorSizes ELSE {512}]
    /\ task = req
    /\ orch = IdleOrch(1)
    /\ \E plot \in EarlierPlots(req) :
          disk = [name \in FileNames |->
                    IF name = FileName(req) THEN plot ELSE NoFile]
    /\ chans = IdleChans /\ bufs = IdleBufs
    /\ sched = IdleSched /\ wr = IdleWriter

(* The steps of the three threads. *)
OrchestratorStep == Validate \/ PrepareFile \/ SpawnThreads \/ Join
SchedulerStep == SchedRecv \/ SchedDispatch \/ SchedClose
WriterStep ==
    \/ WriterRecv \/ WriterWriteScoop \/ WriterCommit \/ WriterSkip
    \/ WriterRecycle \/ WriterExit

NextLive == OrchestratorStep \/ SchedulerStep \/ WriterStep

SpecLive ==
    /\ InitLive /\ [][NextLive]_vars
    /\ WF_vars(OrchestratorStep) /\ WF_vars(SchedulerStep) /\ WF_vars(WriterStep)

----------------------------------------------------------------------------
(* SpecSizer: calculate_mem_to_use as a pure function of drawn inputs.     *)
SizerBudgets ==
    {ParseError} \cup {ParsedBytes(c * NONCE_SIZE + r) : c \in EdgeCounts, r \in {0, 1}}
SizerFree == {c * NONCE_SIZE : c \in EdgeCounts}
SizerGpuMem == {0, 3 * NONCE_SIZE + 7}
SizerSectors == {1, 8, 64}

IdleTask ==
    [numeric_id |-> 0, start_nonce |-> 0, nonces |-> 0, mem |-> ParseError,
     gpu |-> FALSE, direct_io |-> FALSE, async_io |-> FALSE, benchmark |-> FALSE]

NoResult == [kind |-> "none", mem |-> 0, code |-> 0, underflow |-> FALSE]

InitSizer ==
    \E n \in EdgeCounts, m \in SizerBudgets, f \in SizerFree,
       nps \in SizerSectors, g \in BOOLEAN, gm \in SizerGpuMem, a \in BOOLEAN :
        probe = [fn |-> "sizer", nonces |-> n, mem |-> m, free |-> f,
                 nonces_per_sector |-> nps, gpu |-> g, gpu_mem_needed |-> gm,
                 async_io |-> a, res |-> NoResult, buffer_size |-> 0]
    /\ req = IdleTask
    /\ dev = [sector_size |-> 512]
    /\ task = req
    /\ orch = IdleOrch(1)
    /\ disk = [name \in FileNames |-> NoFile]
    /\ chans = IdleChans /\ bufs = IdleBufs
    /\ sched = IdleSched /\ wr = IdleWriter

ApplySizer ==
    /\ probe.fn = "sizer"
    /\ probe.res.kind = "none"
    /\ \E build \in Builds :
        LET r == calculate_mem_to_use(probe, probe.free, probe.nonces_per_sector,
                                      probe.gpu, probe.gpu_mem_needed, build)
        IN  probe' = [probe EXCEPT !.res = r,
                                   !.buffer_size = BufferSize(r.mem, probe.async_io)]
    /\ UNCHANGED runvars

NextSizer == ApplySizer

SpecSizer == InitSizer /\ [][NextSizer]_vars

----------------------------------------------------------------------------
(* SpecAlign: lines 125-154 of run as a pure function of drawn inputs.     *)
MaxAlignNonces == 130
AlignSectors == {128, 512, 4096}
AlignFreeDisks == {4095, 9 * NONCE_SIZE + 4095, 100 * NONCE_SIZE + 4095}

InitAlign ==
    /\ \E n \in 0..MaxAlignNonces, d \in BOOLEAN, ss \in AlignSectors,
          fd \in AlignFreeDisks, id \in NumericIds, st \in StartNonces :
        probe = [fn |-> "align",
                 task |-> [numeric_id |-> id, start_nonce |-> st, nonces |-> n,
                           direct_io |-> d],
                 sector_size |-> ss, free_disk_space |-> fd, applied |-> FALSE,
                 out |-> RunPreamble([numeric_id |-> 0, start_nonce |-> 0,
                                      nonces |-> 0, direct_io |-> FALSE], 0, 64)]
    /\ req = IdleTask
    /\ dev = [sector_size |-> 512]
    /\ task = req
    /\ orch = IdleOrch(1)
    /\ disk = [name \in FileNames |-> NoFile]
    /\ chans = IdleChans /\ bufs = IdleBufs
    /\ sched = IdleSched /\ wr = IdleWriter

ApplyAlign ==
    /\ probe.fn = "align"
    /\ ~probe.applied
    /\ probe' = [probe EXCEPT !.applied = TRUE,
                              !.out = RunPreamble(probe.task, probe.free_disk_space,
                                                  probe.sector_size)]
    /\ UNCHANGED runvars

NextAlign == ApplyAlign

SpecAlign == InitAlign /\ [][NextAlign]_vars

----------------------------------------------------------------------------
(* Claims about the pure functions.                                        *)

(* lane_nonces of the sizer's input, as section 4.5 defines it.            *)
C1_Lane ==
    IF probe.gpu
    THEN (IF probe.nonces_per_sector < 16 THEN 16 ELSE probe.nonces_per_sector)
    ELSE probe.nonces_per_sector
(* C1: whenever calculate_mem_to_use returns Ok(mem), the per-buffer size  *)
(* mem / num_buffer is a multiple of NONCE_SIZE * lane_nonces and at least *)
(* NONCE_SIZE * lane_nonces, with lane_nonces = max(16, nonces_per_sector) *)
(* under GPU and nonces_per_sector otherwise.                              *)
C1_BufferSizeAligned ==
    (probe.fn = "sizer" /\ probe.res.kind = "Ok") =>
        /\ probe.buffer_size % (NONCE_SIZE * C1_Lane) = 0
        /\ probe.buffer_size >= NONCE_SIZE * C1_Lane
        /\ probe.buffer_size * (IF probe.async_io THEN 2 ELSE 1) = probe.res.mem
(* A sized GPU double-buffer run with an unlimited budget whose buffers    *)
(* hold more than one lane group.                                          *)
C1_Witness ==
    /\ probe.fn = "sizer" /\ probe.res.kind = "Ok"
    /\ probe.gpu /\ probe.async_io /\ probe.mem = ParsedBytes(0)
    /\ probe.buffer_size > NONCE_SIZE * C1_Lane

----------------------------------------------------------------------------
(* The nonce count asked for: the count given, or the free disk's.         *)
C5_Requested ==
    IF probe.task.nonces = 0
    THEN probe.free_disk_space \div 262144
    ELSE probe.task.nonces
(* C5: under direct i/o the effective nonce count is the largest multiple  *)
(* of nonces_per_sector = sector_size / SCOOP_SIZE not above the requested *)
(* N (N = 100, sector 4096: 64), the rounding is flagged exactly when N    *)
(* was no multiple, plot size and file name are those of the aligned N;    *)
(* without direct i/o N is unchanged.                                      *)
C5_AlignedNonces ==
    (probe.fn = "align" /\ probe.applied) =>
        LET n == C5_Requested
            nps == probe.sector_size \div 64
            e == probe.out.task.nonces
        IN  /\ probe.task.direct_io =>
                  /\ e % nps = 0 /\ e <= n /\ n - e < nps
                  /\ probe.out.rounded <=> (n % nps # 0)
                  /\ probe.out.nonces_per_sector = nps
            /\ ~probe.task.direct_io => (e = n /\ ~probe.out.rounded)
            /\ probe.out.plotsize = e * 262144
            /\ probe.out.file = <<probe.task.numeric_id, probe.task.start_nonce, e>>
            /\ (probe.task.direct_io /\ n = 100 /\ probe.sector_size = 4096) => e = 64
(* The request of 100 nonces on a device with 4096-byte sectors.           *)
C5_Witness ==
    /\ probe.fn = "align" /\ probe.applied
    /\ probe.task.direct_io /\ probe.task.nonces = 100 /\ probe.sector_size = 4096
    /\ probe.out.task.nonces = 64 /\ probe.out.rounded
    /\ probe.out.plotsize = 64 * NONCE_SIZE

----------------------------------------------------------------------------
(* Claims about the runs (Spec).                                           *)

Spawned == orch.hasher_spawned \/ orch.writer_spawned
FileNonces(name) == name[3]

(* The file an uninterrupted run of task t leaves: scoop s of nonce        *)
(* start + p at slot s * N + p.                                            *)
ReferenceData(t) ==
    [o \in 1..(TrackedScoops * t.nonces) |->
        HashScoop(t.numeric_id, t.start_nonce + ((o - 1) % t.nonces),
                  (o - 1) \div t.nonces)]

(* Nonce at range offset p of file f (of n nonces) has all its scoops.     *)
NonceWritten(f, name, p) ==
    \A s \in 0..(TrackedScoops - 1) :
        f.data[ScoopOffset(s, FileNonces(name), p) \div SCOOP_SIZE + 1]
            = HashScoop(name[1], name[2] + p, s)

(* One step's change of the sidecar of file name. *)
C2_CountStep(name) ==
    LET f == disk[name]
        g == disk'[name]
    IN  /\ (f.resume.present /\ g.resume.present
              /\ g.resume.count # f.resume.count) =>
                /\ name = orch.file /\ orch.pc = "running"
                /\ wr.pc = "write" /\ wr.scoop = TrackedScoops
                /\ f.resume.count = wr.written
                /\ NoncesToWrite > 0
                /\ g.resume.count = f.resume.count + NoncesToWrite
                /\ \A i \in 0..(NoncesToWrite - 1) : NonceWritten(f, name, wr.written + i)
        /\ (~f.resume.present /\ g.resume.present) =>
                ~f.exists /\ g.exists /\ g.resume.count = 0
        /\ (f.resume.present /\ ~g.resume.present) =>
                f.resume.count = FileNonces(name)
(* What a present sidecar says of its file. *)
C2_CountCovered ==
    \A name \in FileNames :
        disk[name].resume.present =>
            /\ disk[name].exists
            /\ disk[name].resume.count <= FileNonces(name)
            /\ \A p \in 0..(disk[name].resume.count - 1) :
                   NonceWritten(disk[name], name, p)
(* C2: the count stored in a resume sidecar changes only when the writer   *)
(* has finished all scoop writes of a buffer of k nonces, from the         *)
(* writer's progress to progress + k; a sidecar appears only with count 0  *)
(* beside a newly preallocated file and goes only at count N; every nonce  *)
(* below the stored count has all its scoops in the file, and the count    *)
(* never exceeds N.                                                        *)
C2_ResumeCount ==
    /\ [](C2_CountCovered)
    /\ [][\A name \in FileNames : C2_CountStep(name)]_vars
(* A sidecar holding a count strictly between 0 and N in a run that was    *)
(* itself resumed, after a write failure or an interruption.               *)
C2_Witness ==
    /\ orch.resumed /\ orch.pc = "running" /\ wr.pc = "recycle"
    /\ disk[orch.file].resume.present
    /\ disk[orch.file].resume.count > orch.progress
    /\ orch.progress > 0
    /\ disk[orch.file].resume.count < task.nonces

(* C3: a run that resumed from the sidecar's progress after an earlier run *)
(* was interrupted, and completed, leaves the file an uninterrupted run    *)
(* of the task leaves.                                                     *)
C3_ResumeDeterminism ==
    (orch.pc = "done" /\ orch.resumed /\ ~task.benchmark) =>
        /\ disk[orch.file].data = ReferenceData(task)
        /\ disk[orch.file].len = task.nonces * NONCE_SIZE
(* A completed run that resumed in the middle of the range. *)
C3_Witness ==
    /\ orch.pc = "done" /\ orch.resumed /\ ~task.benchmark
    /\ orch.runs > 1
    /\ orch.progress > 0 /\ orch.progress < task.nonces
    /\ task.nonces = MaxNonces

(* C4: after a successful run the 64 bytes at file offset                  *)
(* s*N*SCOOP_SIZE + (n-start)*SCOOP_SIZE are scoop s of the hasher's       *)
(* output for (id, n), for every nonce n of the range and every scoop s,   *)
(* with one buffer as with two and for every buffer size.                  *)
C4_ScoopMajorLayout ==
    (orch.pc = "done" /\ ~task.benchmark) =>
        \A n \in task.start_nonce..(task.start_nonce + task.nonces - 1) :
            \A s \in 0..(TrackedScoops - 1) :
                disk[orch.file].data[
                    (s * task.nonces * SCOOP_SIZE
                       + (n - task.start_nonce) * SCOOP_SIZE) \div SCOOP_SIZE + 1]
                  = <<task.numeric_id, n, s>>
(* A two-buffer run of the largest range that wrote several chunks.        *)
C4_Witness ==
    /\ orch.pc = "done" /\ ~task.benchmark /\ task.async_io
    /\ task.nonces = MaxNonces /\ wr.received >= 3

(* C6: a nonce count that rounds down to zero under direct i/o is a fatal  *)
(* error: the run ends without a plot file, a sidecar or a thread.         *)
C6_RoundedToZeroIsFatal ==
    (orch.pc # "start" /\ task.direct_io /\ req.nonces > 0
       /\ req.nonces < orch.nonces_per_sector /\ task.nonces = 0) =>
        /\ orch.pc = "ended" /\ orch.err # "none"
        /\ ~disk[orch.file].exists /\ ~disk[orch.file].resume.present
        /\ ~Spawned

(* The configuration and precondition errors of section 7.                 *)
PreconditionErrors ==
    {"PathMissing", "DiskFull", "ConfigInvalid", "HostMemInsufficient",
     "AlreadyCompleted"}
(* C7: a configuration or precondition error ends the run before a thread  *)
(* is spawned, and none is raised once a thread is spawned.                *)
C7_ErrorsBeforeSpawn ==
    /\ orch.err \in PreconditionErrors =>
          /\ orch.pc = "ended" /\ ~Spawned
          /\ sched.pc = "idle" /\ wr.pc = "idle"
    /\ Spawned => orch.err \notin PreconditionErrors
(* The last check before the spawn fails: the file is already completed.   *)
C7_Witness ==
    /\ orch.err = "AlreadyCompleted" /\ orch.pc = "ended"
    /\ disk[orch.file].exists

(* C8: a fatal failure ends the process with a non-zero status, status 0   *)
(* is a successful run's alone.                                            *)
C8_FatalExitNonZero ==
    (orch.pc = "ended" /\ orch.exit.how = "exit") =>
        (orch.exit.code = 0 <=> orch.err = "none")

(* C9: the writer receives the full buffers in ascending chunk index, the  *)
(* order the scheduler produced them in, and their nonce offsets are       *)
(* contiguous from progress.                                               *)
C9_InOrderHandoff ==
    /\ wr.held # 0 =>
          LET b == bufs[wr.held]
          IN  /\ b.hashed
              /\ b.idx = wr.received - 1
              /\ b.idx = 0 => b.first = orch.progress
              /\ wr.pc = "write" => b.first = wr.written
              /\ wr.pc = "recycle" => b.first + b.count = wr.written
    /\ \A i \in 1..Len(chans.full) :
          bufs[chans.full[i]].idx = wr.received + i - 1
(* Two buffers: the writer holds its second chunk or a later one while the *)
(* next is already waiting.                                                *)
C9_Witness ==
    /\ wr.held # 0 /\ wr.received >= 2 /\ Len(chans.full) = 1
    /\ task.async_io

(* Where buffer b is, and in how many places.                              *)
Occurrences(q, b) == Cardinality({i \in 1..Len(q) : q[i] = b})
PlacesOf(c, sc, w, b) ==
    Occurrences(c.empty, b) + Occurrences(c.full, b)
      + (IF sc.held = b THEN 1 ELSE 0) + (IF w.held = b THEN 1 ELSE 0)
PlaceOf(c, sc, w, b) ==
    IF sc.held = b THEN "Hashing"
    ELSE IF w.held = b THEN "Writing"
    ELSE IF Occurrences(c.full, b) > 0 THEN "Full"
    ELSE "Empty"
(* Each buffer of the run is in one place. *)
C10_Exclusive ==
    orch.pc = "running" =>
        /\ \A b \in 1..(IF task.async_io THEN 2 ELSE 1) :
               PlacesOf(chans, sched, wr, b) = 1
        /\ sched.held # 0 => sched.held # wr.held
(* One step of a running pipeline moves a buffer along the cycle only.     *)
C10_Moves ==
    (orch.pc = "running" /\ orch'.pc = "running") =>
        \A b \in 1..(IF task.async_io THEN 2 ELSE 1) :
            LET from == PlaceOf(chans, sched, wr, b)
                to == PlaceOf(chans', sched', wr', b)
            IN  /\ from # to =>
                      <<from, to>> \in {<<"Empty", "Hashing">>, <<"Hashing", "Full">>,
                                        <<"Full", "Writing">>, <<"Writing", "Empty">>}
                /\ bufs'[b] # bufs[b] => (sched.held = b /\ wr.held # b)
(* C10: every buffer is in exactly one of: empty queue, hasher, full       *)
(* queue, writer; it moves only Empty -> Hashing -> Full -> Writing ->     *)
(* Empty; its contents change only while the hasher, and not the writer,   *)
(* holds it.                                                               *)
C10_ExclusiveLoan == [](C10_Exclusive) /\ [][C10_Moves]_vars
(* Both buffers are out on loan: one with the hasher, one with the writer. *)
C10_Witness ==
    /\ orch.pc = "running" /\ task.async_io
    /\ sched.held # 0 /\ wr.held # 0 /\ wr.pc = "write" /\ wr.scoop = 1

----------------------------------------------------------------------------
(* Claims about calculate_mem_to_use, continued (SpecSizer).               *)

SizerReturned == probe.fn = "sizer" /\ probe.res.kind = "Ok"
(* The unit of rule 7, from the inputs. *)
SizerUnit ==
    (IF probe.async_io THEN 2 ELSE 1) * 262144
      * (IF probe.gpu
         THEN (IF probe.nonces_per_sector < 16 THEN 16 ELSE probe.nonces_per_sector)
         ELSE probe.nonces_per_sector)
(* x * 1000 / 1024 over the integers (floor), x of either sign. *)
Thousand1024ths(x) == (x \div 1024) * 1000 + ((x % 1024) * 1000) \div 1024
(* The free-memory bound of rule 6, over the integers. *)
FreeWithElbowRoom == Thousand1024ths(probe.free - probe.gpu_mem_needed)

(* Rule 1 of section 4.5 on the probe's inputs. *)
C15_Fatal ==
    /\ probe.gpu /\ probe.mem.size > 0
    /\ probe.mem.size < probe.gpu_mem_needed + probe.nonces_per_sector * 262144
(* Rules 2 to 7 of section 4.5 on the probe's inputs, over the integers.   *)
C15_RuleValue ==
    LET b2 == IF probe.gpu /\ probe.mem.size > 0
              THEN probe.mem.size - probe.gpu_mem_needed ELSE probe.mem.size
        b3 == IF b2 = 0 THEN probe.nonces * 262144 ELSE b2
        c4 == probe.nonces * 262144 + probe.gpu_mem_needed
        b4 == IF b3 < c4 THEN b3 ELSE c4
        b6 == IF b4 < FreeWithElbowRoom THEN b4 ELSE FreeWithElbowRoom
        b7 == (b6 \div SizerUnit) * SizerUnit
    IN  IF b7 < SizerUnit THEN SizerUnit ELSE b7
(* Inputs run can pass: a parsable budget, and a GPU reservation only     *)
(* with GPU plotting (lines 110-123).                                      *)
C15_Input ==
    /\ probe.fn = "sizer" /\ probe.res.kind # "none" /\ probe.mem.ok
    /\ probe.gpu \/ probe.gpu_mem_needed = 0
(* C15: on every input calculate_mem_to_use is fatal exactly under rule 1  *)
(* and otherwise returns the value of rules 2 to 7 applied in order; the   *)
(* buffer size is that value / num_buffer.                                 *)
C15_SizerRules ==
    C15_Input =>
        /\ probe.res.kind = "exit" <=> C15_Fatal
        /\ ~C15_Fatal =>
              /\ probe.res.kind = "Ok"
              /\ probe.res.mem = C15_RuleValue
              /\ probe.buffer_size
                    = C15_RuleValue \div (IF probe.async_io THEN 2 ELSE 1)
(* The same on the inputs whose free memory covers the GPU reservation.    *)
C15_SizerRulesFreeCovers ==
    probe.free >= probe.gpu_mem_needed => C15_SizerRules

(* Rules 2 to 5 and 7 on the probe's inputs: the result without rule 6.   *)
C17_Uncapped ==
    LET b2 == IF probe.gpu /\ probe.mem.size > 0
              THEN probe.mem.size - probe.gpu_mem_needed ELSE probe.mem.size
        b3 == IF b2 = 0 THEN probe.nonces * 262144 ELSE b2
        c4 == probe.nonces * 262144 + probe.gpu_mem_needed
        b4 == IF b3 < c4 THEN b3 ELSE c4
        b7 == (b4 \div SizerUnit) * SizerUnit
    IN  IF b7 < SizerUnit THEN SizerUnit ELSE b7
C18_Reserved == IF probe.gpu THEN probe.gpu_mem_needed ELSE 0
(* C18 as stated: with a non-zero budget, buffers plus GPU reservation     *)
(* stay within the budget, and a GPU budget that passes line 394 holds the *)
(* minimum unit.                                                           *)
C18_WithinBudget ==
    (SizerReturned /\ probe.mem.size > 0) =>
        /\ probe.res.mem + C18_Reserved <= probe.mem.size
        /\ probe.gpu => SizerUnit + C18_Reserved <= probe.mem.size
(* C18: with a non-zero budget, buffers plus GPU reservation are at most   *)
(* the larger of the budget and one unit plus the reservation.             *)
C18_WithinBudgetOrUnit ==
    (SizerReturned /\ probe.mem.size > 0) =>
        probe.res.mem + C18_Reserved
            <= Max(probe.mem.size, SizerUnit + C18_Reserved)
(* A GPU budget that is used up to the last unit: more than one unit, and  *)
(* one unit more would pass the budget.                                    *)
C18_Witness ==
    /\ SizerReturned /\ probe.gpu /\ probe.gpu_mem_needed > 0
    /\ probe.mem.size > 0
    /\ probe.res.mem > SizerUnit
    /\ probe.res.mem + SizerUnit + C18_Reserved > probe.mem.size
    /\ probe.res.mem + C18_Reserved <= probe.mem.size

----------------------------------------------------------------------------
(* Claims about the runs, continued (Spec).                                *)

(* The buffers in state Writing. *)
C11_Writing == {b \in 1..2 : PlaceOf(chans, sched, wr, b) = "Writing"}
(* While the writer works on a buffer, that buffer and no other is in      *)
(* state Writing.                                                          *)
C11_OneWriting ==
    /\ Cardinality(C11_Writing) <= 1
    /\ (orch.pc = "running" /\ wr.pc \in {"write", "recycle"}) =>
           C11_Writing = {wr.held}
(* A step that changes the contents of a preallocated plot file writes one *)
(* scoop row of the one buffer in state Writing, at the offsets of that    *)
(* buffer's chunk.                                                         *)
C11_FileStep ==
    \A name \in FileNames :
        (disk[name].exists /\ disk'[name].data # disk[name].data) =>
            /\ name = orch.file
            /\ C11_Writing = {wr.held}
            /\ C11_Writing' = C11_Writing
            /\ LET b == bufs[wr.held]
               IN  \A o \in DOMAIN disk[name].data :
                       disk'[name].data[o] # disk[name].data[o] =>
                           \E i \in 0..(b.count - 1) :
                               /\ o = wr.scoop * task.nonces + b.first + i + 1
                               /\ disk'[name].data[o]
                                    = <<task.numeric_id,
                                        task.start_nonce + b.first + i, wr.scoop>>
(* C11: in every reachable state, with one buffer as with two, at most one *)
(* buffer is in state Writing, and every change of the plot file is a      *)
(* write from that one buffer.                                             *)
C11_SingleWriter == [](C11_OneWriting) /\ [][C11_FileStep]_vars
(* Two buffers: the writer is in the middle of one while the other waits   *)
(* hashed in the full channel.                                             *)
C11_Witness ==
    /\ orch.pc = "running" /\ task.async_io /\ ~task.benchmark
    /\ wr.pc = "write" /\ wr.scoop = 1
    /\ chans.full # <<>>

(* C12: a new file has length N * NONCE_SIZE before the pipeline starts,   *)
(* the file of a successful run has that length, and the last byte any     *)
(* buffer's writes reach (scoop NUM_SCOOPS - 1 of nonce p + k - 1) lies    *)
(* within it: p + k <= N.                                                  *)
C12_FileLength ==
    /\ (orch.pc \in {"prepared", "running", "done"} /\ ~task.benchmark) =>
          /\ disk[orch.file].exists
          /\ disk[orch.file].len = task.nonces * 262144
    /\ (orch.pc = "running" /\ wr.pc = "write" /\ ~task.benchmark) =>
          LET p == wr.written
              k == bufs[wr.held].count
          IN  /\ p + k <= task.nonces
              /\ bufs[wr.held].first = p
              /\ NoncesToWrite = k
              /\ (4095 * task.nonces + p + k) * 64 <= disk[orch.file].len
(* A completed run on a new file of the largest range, in several chunks.  *)
C12_Witness ==
    /\ orch.pc = "done" /\ ~task.benchmark /\ ~orch.resumed
    /\ task.nonces = MaxNonces /\ wr.received >= 2
    /\ disk[orch.file].len = MaxNonces * 262144

(* The errors raised by lines 156-181, while free_disk_space is in use.    *)
C20_DiskRead ==
    \/ orch.pc = "validated"
    \/ /\ orch.pc = "ended"
       /\ orch.err \in {"PathMissing", "DiskFull", "ConfigInvalid",
                        "HostMemInsufficient", "Panic"}
(* A fill-disk task's nonce count fits the free disk. *)
C20_FillDisk ==
    req.nonces = 0 =>
        /\ orch.err # "DiskFull"
        /\ C20_DiskRead =>
              LET n == orch.free_disk_space \div 262144
                  nps == dev.sector_size \div 64
              IN  /\ task.nonces = IF task.direct_io THEN (n \div nps) * nps ELSE n
                  /\ task.nonces * 262144 <= orch.free_disk_space
(* A step that creates a plot file. *)
C20_NewFileStep ==
    \A name \in FileNames :
        (~disk[name].exists /\ disk'[name].exists) =>
            /\ name = orch.file
            /\ orch.pc = "validated"
            /\ orch.free_disk_space >= FileNonces(name) * 262144
            /\ disk'[name].len = FileNonces(name) * 262144
(* C20: a file is preallocated only when the free disk space holds the     *)
(* plot of the effective N; a fill-disk task's N is floor(free disk /      *)
(* NONCE_SIZE), aligned down under direct i/o, its plot fits the free disk *)
(* and it never gets the insufficient-disk-space error.                    *)
C20_DiskSpace == [](C20_FillDisk) /\ [][C20_NewFileStep]_vars
(* A fill-disk task under direct i/o has preallocated its file.            *)
C20_Witness ==
    /\ req.nonces = 0 /\ task.direct_io /\ ~task.benchmark
    /\ orch.pc = "prepared" /\ ~orch.resumed
    /\ task.nonces > 0 /\ disk[orch.file].exists

(* C19: no u64 subtraction of run and calculate_mem_to_use goes below      *)
(* zero, and the progress read from the sidecar is at most the effective   *)
(* N when the pipeline is launched.                                        *)
C19_NoUnderflow ==
    /\ ~orch.underflow
    /\ (orch.pc \in {"validated", "prepared", "running", "done"}
          /\ task.gpu /\ task.mem.size > 0) =>
             task.mem.size - orch.gpu_mem_needed >= 0
    /\ orch.pc \in {"prepared", "running", "done"} =>
          /\ orch.progress <= task.nonces
          /\ orch.plotsize - orch.progress * 262144 >= 0
          /\ task.nonces - orch.progress >= 0
(* The same without line 417's free - gpu_mem_needed. *)
C19_OthersNoUnderflow == orch.underflow \/ C19_NoUnderflow

(* The sidecar is there as long as the plot is not complete. *)
C14_SidecarPresence ==
    /\ \A name \in FileNames :
          /\ disk[name].resume.present => disk[name].exists
          /\ (disk[name].exists /\ ~disk[name].resume.present) =>
                \A p \in 0..(FileNonces(name) - 1) : NonceWritten(disk[name], name, p)
    /\ (orch.pc = "done" /\ ~task.benchmark) => ~disk[orch.file].resume.present
    /\ (orch.pc = "prepared" /\ orch.resumed) =>
          /\ disk[orch.file].resume.present
          /\ orch.progress = disk[orch.file].resume.count
(* One step: a new file gets a sidecar with count 0; an existing file      *)
(* without readable resume info is rejected as completed, the disk left    *)
(* as it is; with resume info, both threads start at the stored count.     *)
C14_Step ==
    /\ \A name \in FileNames :
          (~disk[name].exists /\ disk'[name].exists) =>
              disk'[name].resume = [present |-> TRUE, count |-> 0]
    /\ (orch.pc = "validated" /\ orch'.pc # "validated" /\ disk[orch.file].exists) =>
          IF disk[orch.file].resume.present
          THEN orch'.pc = "prepared" /\ orch'.err = "none" /\ disk' = disk
          ELSE /\ orch'.pc = "ended" /\ orch'.err = "AlreadyCompleted"
               /\ disk' = disk
               /\ ~orch'.hasher_spawned /\ ~orch'.writer_spawned
    /\ orch'.err = "AlreadyCompleted" =>
          /\ disk' = disk
          /\ disk[orch.file].exists /\ ~disk[orch.file].resume.present
    /\ (orch.pc = "prepared" /\ orch'.pc = "running" /\ disk[orch.file].exists) =>
          /\ sched'.pos = disk[orch.file].resume.count
          /\ wr'.written = disk[orch.file].resume.count
----------------------------------------------------------------------------
(* Claims about uninterrupted runs (SpecLive).                             *)

C13_AllRecycled ==
    (task.benchmark /\ orch.pc = "done") =>
        LET num_buffer == IF task.async_io THEN 2 ELSE 1
            todo == task.nonces - orch.progress
            per == orch.buffer_size \div 262144
        IN  /\ sched.pos = task.nonces /\ wr.written = task.nonces
            /\ sched.idx = (todo + per - 1) \div per
            /\ wr.received = sched.idx
            /\ Len(chans.empty) = num_buffer /\ chans.full = <<>>
            /\ \A b \in 1..num_buffer : Occurrences(chans.empty, b) = 1
(* C13: no step of a benchmark run changes the disk, whether the plot file *)
(* was there before the run or not: no file is created, preallocated or    *)
(* written, no sidecar created, updated or removed; the buffers are still  *)
(* hashed and recycled until the range is done.                            *)
C13_BenchmarkLeavesDisk ==
    /\ [](C13_AllRecycled)
    /\ [][task.benchmark => disk' = disk]_vars
(* A finished benchmark run over the rest of a half-written plot that is   *)
(* still half-written.                                                     *)
C13_Witness ==
    /\ task.benchmark /\ orch.pc = "done" /\ orch.resumed
    /\ orch.progress > 0 /\ orch.progress < task.nonces
    /\ wr.received >= 1
    /\ disk[orch.file] = PartialPlot(task.numeric_id, task.start_nonce,
                                     task.nonces, orch.progress)

====
